---- MODULE Spec2Model ----
(***************************************************************************)
(* Access codes, credit accounting, run history and brief cache of the     *)
(* Strategic Account Intelligence Agent (src/main.py), as a state machine  *)
(* over the Replit key-value store.  Every key-value get and every set is  *)
(* one atomic step; a Streamlit session executes one script run at a time, *)
(* and the script runs of different sessions interleave.                   *)
(*                                                                         *)
(* Abstractions: strings are sequences of one-character strings, so that   *)
(* strip() and lower() are computed; time is a tick counter with           *)
(* TicksPerWeek ticks in an ISO week, the tick TicksPerWeek - 2 of a week  *)
(* being Sunday 23:59:59 and the last tick the rest of that Sunday; the    *)
(* created_at / last_login / ran_at / code / email fields of the stored    *)
(* records, which no decision reads, are left out; the agent form varies   *)
(* in its company and initiative fields only.                              *)
(***************************************************************************)
EXTENDS Integers, Sequences, FiniteSets, TLC

\* ------------------------------------------------------------- bounds
MaxTime == 4
MaxRuns == 3
TicksPerWeek == 3

\* ------------------------------------------------- program constants
DEFAULT_FREE_CREDITS == 2
HISTORY_KEEP == 25

OWNER_EMAIL == <<"O">>
OWNER_ACCESS_CODE == <<"OWN", 0, "KBUILDSAI2026">>
ADMIN_PASSWORD == "secret"

SEED_CODES == {<<"REC", 0, "7H3Q9A">>, <<"GEN", 0, "2J9L4C">>}

\* ------------------------------------------------------- input domains
Sessions == {"s1", "s2", "s3"}
Tiers == {"recruiter", "general", "vip"}
Tokens == {"0A1B2C"}
UnknownCode == <<"GEN", 0, "ZZZZZZ">>
Passwords == {ADMIN_PASSWORD, "guess"}
BriefIds == {1, 2}

\* ------------------------------------------------------------ strings
LowerChar(c) ==
  CASE c = "A" -> "a" [] c = "B" -> "b" [] c = "O" -> "o" [] c = "X" -> "x"
    [] OTHER -> c

Lower(s) == [i \in 1..Len(s) |-> LowerChar(s[i])]

RECURSIVE LStrip(_)
LStrip(s) == IF s # <<>> /\ Head(s) = " " THEN LStrip(Tail(s)) ELSE s

RECURSIVE RStrip(_)
RStrip(s) ==
  IF s # <<>> /\ s[Len(s)] = " " THEN RStrip(SubSeq(s, 1, Len(s) - 1)) ELSE s

Strip(s) == RStrip(LStrip(s))

NormEmail(s) == Lower(Strip(s))

RawEmails == {<<"a">>, <<"A", " ">>, <<"b">>, <<" ", "O">>, <<" ">>}
NormEmails == {NormEmail(e) : e \in RawEmails}

Companies == {<<"x">>, <<"x", " ">>, <<" ">>}
Initiatives == {<<>>, <<"i">>}

\* --------------------------------------------------------------- time
iso_week_id(t) == t \div TicksPerWeek

week_expiry_sunday_235959(t) ==
  iso_week_id(t) * TicksPerWeek + (TicksPerWeek - 2)

\* ------------------------------------------------------------ records
NoRec == [absent |-> TRUE]

Prefix(tier) ==
  IF tier = "recruiter" THEN "REC" ELSE IF tier = "vip" THEN "VIP" ELSE "GEN"

SeedTier(code) ==
  IF code[1] = "REC" THEN "recruiter"
  ELSE IF code[1] = "VIP" THEN "vip" ELSE "general"

GenCodes ==
  {<<Prefix(tr), w, tk>> : tr \in Tiers, w \in 0..iso_week_id(MaxTime),
                           tk \in Tokens}

AllCodes == SEED_CODES \cup GenCodes \cup {UnknownCode, OWNER_ACCESS_CODE}

CacheKeys ==
  {[company |-> Strip(c), initiative |-> Strip(i), week |-> w] :
     c \in Companies, i \in Initiatives, w \in 0..iso_week_id(MaxTime)}

InitSess == [logged_in |-> FALSE, email |-> <<>>, tier |-> "general",
             is_admin |-> FALSE]

Idle == [op |-> "none", raw |-> <<>>, email |-> <<>>, code |-> UnknownCode, crec |-> NoRec,
         tier |-> "", urec |-> NoRec, run |-> FALSE, key |-> NoRec,
         company |-> <<>>, initiative |-> <<>>, before |-> 0, rem |-> 0, newc |-> 0,
         brief |-> NoRec, hist |-> <<>>, payload |-> NoRec]

VARIABLES now, codes, users, history, cache, sess, pw, pc, loc,
          granted, okRuns, submitted, apiOk, apiTwice, dirty

vars == <<now, codes, users, history, cache, sess, pw, pc, loc,
          granted, okRuns, submitted, apiOk, apiTwice, dirty>>

db == <<codes, users, history, cache>>
ghosts == <<granted, okRuns, submitted, apiOk, apiTwice, dirty>>

Goto(s, p, l) ==
  /\ pc' = [pc EXCEPT ![s] = p]
  /\ loc' = [loc EXCEPT ![s] = l]

Return(s) == Goto(s, "idle", Idle)

Max(a, b) == IF a >= b THEN a ELSE b

\* ------------------------------------------------- pure operations
CodeCurrent_week_only(rec, t) == rec.week_id = iso_week_id(t)

\* validate_login_code: the week check and the expiry check of a record.
CodeCurrent(rec, t) ==
  /\ rec.week_id = iso_week_id(t)
  /\ ~(rec.expires_at < t)

EmailMatches_any(rec, email) == TRUE

\* validate_login_code: the email binding rule of a record that is bound.
EmailMatches(rec, email) == rec.email = email

\* validate_login_code up to its db_set: ok is the returned flag, write
\* says whether db_set follows, rec is the record returned (and written).
validate_login_code(email, code, t) ==
  LET e == Strip(Lower(email))
      rec == codes[code]
      fail == [ok |-> FALSE, write |-> FALSE, rec |-> NoRec]
  IN IF rec = NoRec THEN fail
     ELSE IF ~CodeCurrent(rec, t) THEN fail
     ELSE IF rec.email # <<>>
       THEN IF ~EmailMatches(rec, e) THEN fail
            ELSE [ok |-> TRUE, write |-> FALSE, rec |-> rec]
       ELSE [ok |-> TRUE, write |-> TRUE, rec |-> [rec EXCEPT !.email = e]]

\* ensure_user up to its db_set: the record it writes.
ensure_user(email, tier) ==
  LET cur == users[email]
  IN IF cur = NoRec
       THEN [credits |-> DEFAULT_FREE_CREDITS, tier |-> tier]
       ELSE IF tier # "" /\ cur.tier = "" THEN [cur EXCEPT !.tier = tier]
            ELSE cur

decrement_credit_twice(c) == Max(0, c - 2)

\* decrement_credit: the new balance.
decrement_credit(c) == Max(0, c - 1)

\* update_user_credits up to its db_set: the record it writes.
update_user_credits(email, new_credits) ==
  LET cur == users[email]
  IN IF cur = NoRec THEN [credits |-> new_credits, tier |-> "general"]
     ELSE [cur EXCEPT !.credits = new_credits]

save_history_append(hist, payload) ==
  LET h == hist \o <<payload>>
  IN SubSeq(h, IF Len(h) < HISTORY_KEEP THEN 1 ELSE Len(h) - HISTORY_KEEP + 1,
            Len(h))

\* save_history: the list it stores.
save_history(hist, payload) ==
  LET h == <<payload>> \o hist
  IN SubSeq(h, 1, IF Len(h) < HISTORY_KEEP THEN Len(h) ELSE HISTORY_KEEP)

\* render_agent: the required-field check and the cache key.
RequiredOk(company) == Strip(company) # <<>>

cache_key(company, initiative, t) ==
  [company |-> Strip(company), initiative |-> Strip(initiative),
   week |-> iso_week_id(t)]

CacheHit_never(cached) == FALSE

\* render_agent: "if cached:".
CacheHit(cached) == cached # NoRec

AdminUnlocked_no_password(s) == sess[s].logged_in /\ sess[s].is_admin

\* main / render_admin: the admin tab is shown and the password gate passed.
AdminUnlocked(s) ==
  /\ sess[s].logged_in
  /\ sess[s].is_admin
  /\ pw[s] = ADMIN_PASSWORD

\* render_login: the owner bypass test.
OwnerBypass(email, code) ==
  email = Strip(Lower(OWNER_EMAIL)) /\ code = OWNER_ACCESS_CODE

MidRun == {"dec_set", "cache_get", "api", "cache_set", "hist_get",
           "hist_set", "upd_get", "upd_set"}

\* The runs of other sessions on email e that a write by s falls into.
Touched(s, e) ==
  {t \in Sessions \ {s} :
     pc[t] \in MidRun /\ loc[t].op = "agent" /\ loc[t].email = e}

\* -------------------------------------------------------------- time
Tick ==
  /\ now < MaxTime
  /\ now' = now + 1
  /\ UNCHANGED <<db, sess, pw, pc, loc, ghosts>>

\* ------------------------------------------------------------- login
\* render_login, to the end of validate_login_code's db_get and checks.
LoginSubmit(s, rawEmail, code) ==
  /\ pc[s] = "idle"
  /\ ~sess[s].logged_in
  /\ LET email == Lower(Strip(rawEmail))
         v == validate_login_code(email, code, now)
         l == [Idle EXCEPT !.raw = rawEmail, !.email = email, !.code = code]
     IN IF email = <<>>
          THEN /\ Return(s)
               /\ UNCHANGED <<sess, granted>>
        ELSE IF OwnerBypass(email, code)
          THEN /\ sess' = [sess EXCEPT ![s] =
                     [logged_in |-> TRUE, email |-> email, tier |-> "owner",
                      is_admin |-> TRUE]]
               /\ Goto(s, "ens_get", [l EXCEPT !.op = "owner", !.tier = "owner"])
               /\ UNCHANGED granted
        ELSE IF ~v.ok
          THEN /\ Goto(s, "idle", [Idle EXCEPT !.op = "denied", !.code = code])
               /\ UNCHANGED <<sess, granted>>
        ELSE IF v.write
          THEN /\ Goto(s, "val_set", [l EXCEPT !.op = "login", !.crec = v.rec])
               /\ UNCHANGED <<sess, granted>>
        ELSE /\ Goto(s, "ens_get", [l EXCEPT !.op = "login", !.crec = v.rec,
                                              !.tier = v.rec.tier])
             /\ granted' = [granted EXCEPT ![code] = @ \cup {email}]
             /\ UNCHANGED sess
  /\ UNCHANGED <<now, db, pw, okRuns, submitted, apiOk, apiTwice, dirty>>

\* validate_login_code: the db_set that binds an unbound code, and return.
ValSet(s) ==
  /\ pc[s] = "val_set"
  /\ codes' = [codes EXCEPT ![loc[s].code] = loc[s].crec]
  /\ granted' = [granted EXCEPT ![loc[s].code] = @ \cup {loc[s].crec.email}]
  /\ Goto(s, "ens_get", [loc[s] EXCEPT !.tier = loc[s].crec.tier])
  /\ UNCHANGED <<now, users, history, cache, sess, pw, okRuns, submitted,
                 apiOk, apiTwice, dirty>>

\* ensure_user: the read of the user record.
EnsGet(s) ==
  /\ pc[s] = "ens_get"
  /\ Goto(s, "ens_set",
          [loc[s] EXCEPT !.urec = ensure_user(loc[s].email, loc[s].tier)])
  /\ UNCHANGED <<now, db, sess, pw, ghosts>>

\* ensure_user: db_set(key, rec).
EnsSet(s) ==
  /\ pc[s] = "ens_set"
  /\ users' = [users EXCEPT ![loc[s].email] = loc[s].urec]
  /\ dirty' = dirty \cup Touched(s, loc[s].email)
  /\ Goto(s, "ens_reget", loc[s])
  /\ UNCHANGED <<now, codes, history, cache, sess, pw, granted, okRuns,
                 submitted, apiOk, apiTwice>>

\* ensure_user: the final db_get, and what the caller does with the user:
\* render_login stores the session, render_agent checks the balance, the
\* submit flag and the required fields, and derives the cache key.
EnsReget(s) ==
  /\ pc[s] = "ens_reget"
  /\ LET user == users[loc[s].email]
     IN IF loc[s].op = "login"
          THEN /\ sess' = [sess EXCEPT ![s] =
                     [logged_in |-> TRUE, email |-> loc[s].email,
                      tier |-> user.tier, is_admin |-> FALSE]]
               /\ Return(s)
        ELSE IF loc[s].op = "agent" /\ user.credits > 0 /\ loc[s].run
                /\ RequiredOk(loc[s].company)
          THEN /\ Goto(s, "dec_get",
                       [loc[s] EXCEPT !.key = cache_key(loc[s].company,
                                                        loc[s].initiative, now)])
               /\ UNCHANGED sess
        ELSE /\ Return(s)
             /\ UNCHANGED sess
  /\ UNCHANGED <<now, db, pw, ghosts>>

\* main: the Log out button.
Logout(s) ==
  /\ pc[s] = "idle"
  /\ sess[s].logged_in
  /\ sess' = [sess EXCEPT ![s] = InitSess]
  /\ pw' = [pw EXCEPT ![s] = ""]
  /\ Return(s)
  /\ UNCHANGED <<now, db, ghosts>>

\* ------------------------------------------------------------- agent
\* main -> render_agent: a script run of a logged-in session, with the
\* agent form's fields and whether "Run Agent" was pressed.
AgentStart(s, company, initiative, run) ==
  /\ pc[s] = "idle"
  /\ sess[s].logged_in
  /\ run => submitted < MaxRuns
  /\ submitted' = IF run THEN submitted + 1 ELSE submitted
  /\ Goto(s, "ens_get",
          [Idle EXCEPT !.op = "agent", !.email = sess[s].email,
                       !.tier = sess[s].tier, !.run = run,
                       !.company = company, !.initiative = initiative])
  /\ UNCHANGED <<now, db, sess, pw, granted, okRuns, apiOk, apiTwice, dirty>>

\* decrement_credit: the read of the user record.
DecGet(s) ==
  /\ pc[s] = "dec_get"
  /\ LET cur == users[loc[s].email]
         rec == IF cur = NoRec
                  THEN [credits |-> DEFAULT_FREE_CREDITS, tier |-> "general"]
                  ELSE cur
         c == decrement_credit(rec.credits)
     IN Goto(s, "dec_set",
             [loc[s] EXCEPT !.before = rec.credits, !.rem = c,
                            !.urec = [rec EXCEPT !.credits = c]])
  /\ dirty' = dirty \ {s}
  /\ UNCHANGED <<now, db, sess, pw, granted, okRuns, submitted, apiOk, apiTwice>>

\* decrement_credit: db_set(key, rec).
DecSet(s) ==
  /\ pc[s] = "dec_set"
  /\ users' = [users EXCEPT ![loc[s].email] = loc[s].urec]
  /\ dirty' = dirty \cup Touched(s, loc[s].email)
  /\ Goto(s, "cache_get", loc[s])
  /\ UNCHANGED <<now, codes, history, cache, sess, pw, granted, okRuns,
                 submitted, apiOk, apiTwice>>

\* render_agent: cached = db_get(cache_key); a hit is the brief.
CacheGet(s) ==
  /\ pc[s] = "cache_get"
  /\ LET cached == cache[loc[s].key]
     IN IF CacheHit(cached)
          THEN Goto(s, "hist_get", [loc[s] EXCEPT !.brief = cached])
          ELSE Goto(s, "api", loc[s])
  /\ UNCHANGED <<now, db, sess, pw, ghosts>>

\* perplexity_brief returns a brief.
ApiOk(s, b) ==
  /\ pc[s] = "api"
  /\ Goto(s, "cache_set", [loc[s] EXCEPT !.brief = [id |-> b]])
  /\ apiOk' = apiOk \cup {<<s, loc[s].key>>}
  /\ apiTwice' = IF <<s, loc[s].key>> \in apiOk
                   THEN apiTwice \cup {<<s, loc[s].key>>} ELSE apiTwice
  /\ UNCHANGED <<now, db, sess, pw, granted, okRuns, submitted, dirty>>

\* perplexity_brief raises: the except branch begins the refund.
ApiFail(s) ==
  /\ pc[s] = "api"
  /\ Goto(s, "upd_get", [loc[s] EXCEPT !.newc = loc[s].rem + 1])
  /\ UNCHANGED <<now, db, sess, pw, ghosts>>

\* render_agent: db_set(cache_key, brief).
CacheSet(s) ==
  /\ pc[s] = "cache_set"
  /\ cache' = [cache EXCEPT ![loc[s].key] = loc[s].brief]
  /\ Goto(s, "hist_get", loc[s])
  /\ UNCHANGED <<now, codes, users, history, sess, pw, ghosts>>

\* render_agent builds run_record; save_history reads the list.
HistGet(s) ==
  /\ pc[s] = "hist_get"
  /\ Goto(s, "hist_set",
          [loc[s] EXCEPT
             !.hist = history[loc[s].email],
             !.payload = [company |-> Strip(loc[s].company),
                          credits_remaining_after |-> loc[s].rem,
                          brief |-> loc[s].brief]])
  /\ UNCHANGED <<now, db, sess, pw, ghosts>>

\* save_history: db_set(key, hist); the run is done.
HistSet(s) ==
  /\ pc[s] = "hist_set"
  /\ history' = [history EXCEPT ![loc[s].email] =
                   save_history(loc[s].hist, loc[s].payload)]
  /\ okRuns' = [okRuns EXCEPT ![loc[s].email] = @ + 1]
  /\ dirty' = dirty \ {s}
  /\ Goto(s, "idle", [Idle EXCEPT !.op = "ran", !.email = loc[s].email,
                                  !.before = loc[s].before,
                                  !.rem = loc[s].rem,
                                  !.payload = loc[s].payload])
  /\ UNCHANGED <<now, codes, users, cache, sess, pw, granted, submitted,
                 apiOk, apiTwice>>

\* What render_agent does after an admin form's handler: ensure_user for
\* the session's own email, with no run submitted.
AfterAdmin(s, op) ==
  Goto(s, "ens_get", [Idle EXCEPT !.op = op, !.email = sess[s].email,
                                  !.tier = sess[s].tier])

\* update_user_credits: the read of the user record.
UpdGet(s) ==
  /\ pc[s] = "upd_get"
  /\ Goto(s, "upd_set",
          [loc[s] EXCEPT !.urec = update_user_credits(loc[s].email,
                                                      loc[s].newc)])
  /\ UNCHANGED <<now, db, sess, pw, ghosts>>

\* update_user_credits: db_set(key, rec); a refund ends the script run, the
\* admin form goes on to render_agent.
UpdSet(s) ==
  /\ pc[s] = "upd_set"
  /\ users' = [users EXCEPT ![loc[s].email] = loc[s].urec]
  /\ dirty' = (dirty \cup Touched(s, loc[s].email)) \ {s}
  /\ IF loc[s].op = "agent"
       THEN Goto(s, "idle", [Idle EXCEPT !.op = "refunded",
                                         !.email = loc[s].email,
                                         !.before = loc[s].before,
                                         !.rem = loc[s].rem])
       ELSE AfterAdmin(s, "admin")
  /\ UNCHANGED <<now, codes, history, cache, sess, pw, granted, okRuns,
                 submitted, apiOk, apiTwice>>

\* ------------------------------------------------------------- admin
\* render_admin: the password field.
EnterPw(s, v) ==
  /\ pc[s] = "idle"
  /\ sess[s].logged_in
  /\ sess[s].is_admin
  /\ pw' = [pw EXCEPT ![s] = v]
  /\ AfterAdmin(s, "pw")
  /\ UNCHANGED <<now, db, sess, ghosts>>

\* seed_demo_codes_if_missing.
Seed(s) ==
  /\ pc[s] = "idle"
  /\ AdminUnlocked(s)
  /\ codes' = [c \in AllCodes |->
                 IF c \in SEED_CODES /\ codes[c] = NoRec
                   THEN [email |-> <<>>, tier |-> SeedTier(c),
                         week_id |-> iso_week_id(now),
                         expires_at |-> week_expiry_sunday_235959(now)]
                   ELSE codes[c]]
  /\ AfterAdmin(s, "seed")
  /\ UNCHANGED <<now, users, history, cache, sess, pw, ghosts>>

\* create_code_for_email, from the create_code_form.
CreateCode(s, rawEmail, tier, token) ==
  /\ pc[s] = "idle"
  /\ AdminUnlocked(s)
  /\ IF Strip(rawEmail) = <<>>
       THEN UNCHANGED codes
       ELSE codes' = [codes EXCEPT
              ![<<Prefix(tier), iso_week_id(now), token>>] =
                 [email |-> Strip(Lower(Strip(rawEmail))), tier |-> tier,
                  week_id |-> iso_week_id(now),
                  expires_at |-> week_expiry_sunday_235959(now)]]
  /\ AfterAdmin(s, "create")
  /\ UNCHANGED <<now, users, history, cache, sess, pw, ghosts>>

\* bind_unbound_code_to_email: the read and the two refusals.
BindGet(s, code, rawEmail) ==
  /\ pc[s] = "idle"
  /\ AdminUnlocked(s)
  /\ LET rec == codes[code]
     IN IF rec = NoRec \/ rec.email # <<>>
          THEN AfterAdmin(s, "bind")
          ELSE Goto(s, "bind_set",
                    [Idle EXCEPT !.op = "bind", !.code = code,
                       !.crec = [rec EXCEPT !.email =
                                   Strip(Lower(Strip(rawEmail)))]])
  /\ UNCHANGED <<now, db, sess, pw, ghosts>>

\* bind_unbound_code_to_email: db_set(key, rec).
BindSet(s) ==
  /\ pc[s] = "bind_set"
  /\ codes' = [codes EXCEPT ![loc[s].code] = loc[s].crec]
  /\ AfterAdmin(s, "bind")
  /\ UNCHANGED <<now, users, history, cache, sess, pw, ghosts>>

\* update_user_credits, from the add_credits_form.
SetCredits(s, rawEmail, n) ==
  /\ pc[s] = "idle"
  /\ AdminUnlocked(s)
  /\ Goto(s, "upd_get", [Idle EXCEPT !.op = "credits",
                                     !.email = Lower(Strip(Strip(rawEmail))),
                                     !.newc = n])
  /\ UNCHANGED <<now, db, sess, pw, ghosts>>

\* ---------------------------------------------------- specifications
SeedGen == <<"GEN", 0, "2J9L4C">>

SeededCodes ==
  [c \in AllCodes |->
     IF c \in SEED_CODES
       THEN [email |-> <<>>, tier |-> SeedTier(c), week_id |-> 0,
             expires_at |-> week_expiry_sunday_235959(0)]
       ELSE NoRec]

OwnerOnly ==
  [e \in NormEmails |->
     IF e = NormEmail(OWNER_EMAIL)
       THEN [credits |-> DEFAULT_FREE_CREDITS, tier |-> "owner"]
       ELSE NoRec]

NoHistory == [e \in NormEmails |-> <<>>]

OwnerSess == [logged_in |-> TRUE, email |-> NormEmail(OWNER_EMAIL),
              tier |-> "owner", is_admin |-> TRUE]

InitCommon ==
  /\ now = 0
  /\ cache = [k \in CacheKeys |-> NoRec]
  /\ pc = [s \in Sessions |-> "idle"]
  /\ loc = [s \in Sessions |-> Idle]
  /\ granted = [c \in AllCodes |-> {}]
  /\ okRuns = [e \in NormEmails |-> 0]
  /\ submitted = 0
  /\ apiOk = {}
  /\ apiTwice = {}
  /\ dirty = {}

\* The store after the owner has logged in, seeded the demo codes in week 0
\* and logged out; nobody else has been seen yet.
Init ==
  /\ InitCommon
  /\ codes = SeededCodes
  /\ users = OwnerOnly
  /\ history = NoHistory
  /\ sess = [s \in Sessions |-> InitSess]
  /\ pw = [s \in Sessions |-> ""]

Users2 == {"s1", "s2"}

\* Two sessions of one email: logins with the seeded code, logouts, agent
\* runs, API failures and refunds, interleaved step by step.
Next ==
  \/ \E s \in Users2 : LoginSubmit(s, <<"A", " ">>, SeedGen)
  \/ \E s \in Users2 : ValSet(s)
  \/ \E s \in Users2 : EnsGet(s)
  \/ \E s \in Users2 : EnsSet(s)
  \/ \E s \in Users2 : EnsReget(s)
  \/ \E s \in Users2 : Logout(s)
  \/ \E s \in Users2, c \in {<<"x", " ">>, <<" ">>}, r \in BOOLEAN :
       AgentStart(s, c, <<>>, r)
  \/ \E s \in Users2 : DecGet(s)
  \/ \E s \in Users2 : DecSet(s)
  \/ \E s \in Users2 : CacheGet(s)
  \/ \E s \in Users2, b \in {1} : ApiOk(s, b)
  \/ \E s \in Users2 : ApiFail(s)
  \/ \E s \in Users2 : CacheSet(s)
  \/ \E s \in Users2 : HistGet(s)
  \/ \E s \in Users2 : HistSet(s)
  \/ \E s \in Users2 : UpdGet(s)
  \/ \E s \in Users2 : UpdSet(s)

Spec == Init /\ [][Next]_vars

\* ------------------------------------------------------------- codes
\* The owner is logged in on s3 and has unlocked the admin tools; no code
\* exists yet.
InitCodes ==
  /\ InitCommon
  /\ codes = [c \in AllCodes |-> NoRec]
  /\ users = OwnerOnly
  /\ history = NoHistory
  /\ sess = [s \in Sessions |-> IF s = "s3" THEN OwnerSess ELSE InitSess]
  /\ pw = [s \in Sessions |-> IF s = "s3" THEN ADMIN_PASSWORD ELSE ""]

GenA == <<"GEN", 0, "0A1B2C">>

\* Issuing, binding and validating codes while time passes: the admin on
\* s3, two visitors on s1 and s2.
NextCodes ==
  \/ Tick
  \/ Seed("s3")
  \/ \E e \in {<<"a">>, <<" ">>} : CreateCode("s3", e, "general", "0A1B2C")
  \/ \E c \in {SeedGen, UnknownCode}, e \in {<<"b">>} : BindGet("s3", c, e)
  \/ BindSet("s3")
  \/ \E s \in Users2, e \in {<<"A", " ">>, <<"b">>},
        c \in {SeedGen, GenA} : LoginSubmit(s, e, c)
  \/ \E s \in Users2 : ValSet(s)
  \/ \E s \in Sessions : EnsGet(s)
  \/ \E s \in Sessions : EnsSet(s)
  \/ \E s \in Sessions : EnsReget(s)
  \/ \E s \in Users2 : Logout(s)

SpecCodes == InitCodes /\ [][NextCodes]_vars

\* ------------------------------------------------------------- admin
\* The program's first start: an empty store, nobody logged in.
InitAdmin ==
  /\ InitCommon
  /\ codes = [c \in AllCodes |-> NoRec]
  /\ users = [e \in NormEmails |-> NoRec]
  /\ history = NoHistory
  /\ sess = [s \in Sessions |-> InitSess]
  /\ pw = [s \in Sessions |-> ""]

OwnerInputs ==
  {<<<<" ", "O">>, OWNER_ACCESS_CODE>>, <<<<" ">>, OWNER_ACCESS_CODE>>}

VisitorInputs ==
  {<<<<"b">>, OWNER_ACCESS_CODE>>, <<<<" ", "O">>, SeedGen>>,
   <<<<"b">>, SeedGen>>}

\* The owner on s3 (login, the admin password field, the four admin tools,
\* logout) and a visitor on s1 (logins, logout, agent runs that fail and
\* are refunded).
NextAdmin ==
  \/ \E i \in OwnerInputs : LoginSubmit("s3", i[1], i[2])
  \/ \E i \in VisitorInputs : LoginSubmit("s1", i[1], i[2])
  \/ ValSet("s1")
  \/ \E s \in {"s1", "s3"} : EnsGet(s)
  \/ \E s \in {"s1", "s3"} : EnsSet(s)
  \/ \E s \in {"s1", "s3"} : EnsReget(s)
  \/ \E s \in {"s1", "s3"} : Logout(s)
  \/ \E s \in {"s1", "s3"}, v \in Passwords : EnterPw(s, v)
  \/ \E s \in {"s1", "s3"} : Seed(s)
  \/ \E s \in {"s1", "s3"} : CreateCode(s, <<"b">>, "vip", "0A1B2C")
  \/ \E s \in {"s1", "s3"} : BindGet(s, SeedGen, <<"b">>)
  \/ \E s \in {"s1", "s3"} : BindSet(s)
  \/ \E s \in {"s1", "s3"} : SetCredits(s, <<"b">>, 1)
  \/ AgentStart("s1", <<"x">>, <<>>, TRUE)
  \/ DecGet("s1")
  \/ DecSet("s1")
  \/ CacheGet("s1")
  \/ ApiOk("s1", 1)
  \/ ApiFail("s1")
  \/ CacheSet("s1")
  \/ HistGet("s1")
  \/ HistSet("s1")
  \/ \E s \in {"s1", "s3"} : UpdGet(s)
  \/ \E s \in {"s1", "s3"} : UpdSet(s)

SpecAdmin == InitAdmin /\ [][NextAdmin]_vars

\* ----------------------------------------------------------- history
SessA == [logged_in |-> TRUE, email |-> <<"a">>, tier |-> "general",
          is_admin |-> FALSE]

KeyX0 == [company |-> <<"x">>, initiative |-> <<>>, week |-> 0]

\* The n runs of email a before the model starts: the admin had set the
\* credits to MaxRuns + n, and each run left one credit less; index 1 is the
\* newest.
PastRuns(n) ==
  [i \in 1..n |->
     [company |-> <<"x">>,
      credits_remaining_after |-> MaxRuns + i - 1, brief |-> [id |-> 1]]]

\* Email a, logged in with the seeded code on the sessions in S, has
\* MaxRuns credits left after n earlier successful runs.
InitRuns(S, n) ==
  /\ now = 0
  /\ codes = [SeededCodes EXCEPT ![SeedGen].email = <<"a">>]
  /\ users = [OwnerOnly EXCEPT ![<<"a">>] =
                [credits |-> MaxRuns, tier |-> "general"]]
  /\ history = [NoHistory EXCEPT ![<<"a">>] = PastRuns(n)]
  /\ cache = [k \in CacheKeys |->
                IF n > 0 /\ k = KeyX0 THEN [id |-> 1] ELSE NoRec]
  /\ sess = [s \in Sessions |-> IF s \in S THEN SessA ELSE InitSess]
  /\ pw = [s \in Sessions |-> ""]
  /\ pc = [s \in Sessions |-> "idle"]
  /\ loc = [s \in Sessions |-> Idle]
  /\ granted = [c \in AllCodes |-> IF c = SeedGen THEN {<<"a">>} ELSE {}]
  /\ okRuns = [e \in NormEmails |-> IF e = <<"a">> THEN n ELSE 0]
  /\ submitted = 0
  /\ apiOk = {}
  /\ apiTwice = {}
  /\ dirty = {}

InitHist == \E n \in 0..HISTORY_KEEP : InitRuns({"s1"}, n)

\* One session running the agent, the API succeeding or failing.
NextHist ==
  \/ Tick
  \/ \E c \in {<<"x">>, <<"x", " ">>} : AgentStart("s1", c, <<>>, TRUE)
  \/ EnsGet("s1")
  \/ EnsSet("s1")
  \/ EnsReget("s1")
  \/ DecGet("s1")
  \/ DecSet("s1")
  \/ CacheGet("s1")
  \/ \E b \in BriefIds : ApiOk("s1", b)
  \/ ApiFail("s1")
  \/ CacheSet("s1")
  \/ HistGet("s1")
  \/ HistSet("s1")
  \/ UpdGet("s1")
  \/ UpdSet("s1")

SpecHist == InitHist /\ [][NextHist]_vars

\* ------------------------------------------------------------- cache
InitCache == InitRuns(Users2, 0)

\* Two sessions of one email running the agent on a few inputs while the
\* weeks pass, the API succeeding or failing.
NextCache ==
  \/ Tick
  \/ \E c \in {<<"x">>, <<"x", " ">>} : AgentStart("s1", c, <<>>, TRUE)
  \/ \E i \in Initiatives : AgentStart("s2", <<"x">>, i, TRUE)
  \/ \E s \in Users2 : EnsGet(s)
  \/ \E s \in Users2 : EnsSet(s)
  \/ \E s \in Users2 : EnsReget(s)
  \/ \E s \in Users2 : DecGet(s)
  \/ \E s \in Users2 : DecSet(s)
  \/ \E s \in Users2 : CacheGet(s)
  \/ \E b \in BriefIds : ApiOk("s1", b)
  \/ ApiOk("s2", 2)
  \/ ApiFail("s1")
  \/ \E s \in Users2 : CacheSet(s)
  \/ \E s \in Users2 : HistGet(s)
  \/ \E s \in Users2 : HistSet(s)
  \/ UpdGet("s1")
  \/ UpdSet("s1")

SpecCache == InitCache /\ [][NextCache]_vars

\* ------------------------------------------------------------- claims
UserA == <<"a">>

Quiescent == \A s \in Sessions : pc[s] = "idle"

\* C1: a user whose record ensure_user created with DEFAULT_FREE_CREDITS,
\* and whose credits no admin form has set (Spec has no admin step),
\* completes at most two successful agent runs in total, in one session or
\* in several sessions of the same email.
C1_AtMostTwoFreeRuns ==
  \A e \in NormEmails : okRuns[e] <= DEFAULT_FREE_CREDITS

\* C2: when a run fails and no other operation has written the user's
\* record between the run's decrement_credit and its refund, the stored
\* credits after the refund equal the stored credits just before the
\* decrement, and the refund leaves the history list as it was.
C2_RefundRestoresBalance ==
  [][\A s \in Sessions :
       (pc[s] = "upd_set" /\ loc[s].op = "agent" /\ pc'[s] = "idle"
          /\ s \notin dirty)
       => /\ users'[loc[s].email].credits = loc[s].before
          /\ history'[loc[s].email] = history[loc[s].email]]_vars

\* C6: a run that was submitted, passed the required-field check and found
\* c >= 1 credits in decrement_credit stores exactly c - 1 credits, and the
\* history record the run saves on success, from the cache or from the API,
\* has credits_remaining_after = c - 1.
C6_RunUsesOneCredit ==
  [][\A s \in Sessions :
       /\ (pc[s] = "dec_set" /\ pc'[s] # "dec_set" /\ loc[s].before >= 1)
          => users'[loc[s].email].credits = loc[s].before - 1
       /\ (pc[s] = "hist_set" /\ pc'[s] # "hist_set" /\ loc[s].before >= 1)
          => /\ history'[loc[s].email] # <<>>
             /\ Head(history'[loc[s].email]).credits_remaining_after
                  = loc[s].before - 1
             /\ RequiredOk(loc[s].company)]_vars

\* A run has completed from the cache in one session and from the API in
\* another, each having found at least one credit.
C6_Witness ==
  /\ loc["s1"].op = "ran" /\ loc["s1"].before >= 1
  /\ loc["s2"].op = "ran" /\ loc["s2"].before >= 1
  /\ apiOk # {}
  /\ \A x \in apiOk : x[1] = "s1"

\* A step in which validate_login_code, called by session s, passes all its
\* checks (its db_get, the week, the expiry and the email rule).
Validated(s) ==
  /\ pc[s] = "idle"
  /\ pc'[s] \in {"val_set", "ens_get"}
  /\ loc'[s].op = "login"

\* A step in which the login of session s is refused by validate_login_code.
Denied(s) ==
  /\ pc[s] = "idle"
  /\ pc'[s] = "idle"
  /\ ~sess[s].logged_in
  /\ loc'[s].op = "denied"
  /\ loc'[s] # loc[s]

WeekEnd(rec) == rec.week_id * TicksPerWeek + TicksPerWeek

\* C3: validate_login_code passes a code only if its record exists, the
\* record's week_id is the ISO week of the current time and its expires_at
\* is not before the current time; a record keeps its week_id, so once the
\* code's week has ended no later call passes, for any email.
C3_CodesExpireWeekly ==
  [][/\ \A s \in Sessions :
          Validated(s) =>
            LET rec == codes[loc'[s].code]
            IN /\ rec # NoRec
               /\ rec.week_id * TicksPerWeek <= now
               /\ now < WeekEnd(rec)
               /\ now <= rec.expires_at
     /\ \A c \in AllCodes :
          codes[c] # NoRec =>
            /\ codes'[c] # NoRec
            /\ codes'[c].week_id = codes[c].week_id
            /\ codes'[c].expires_at = codes[c].expires_at]_vars

\* A code that let an email in during its week is refused after the week
\* has ended.
C3_Witness ==
  \E s \in Sessions :
    /\ loc[s].op = "denied"
    /\ codes[loc[s].code] # NoRec
    /\ granted[loc[s].code] # {}
    /\ now >= WeekEnd(codes[loc[s].code])

\* C4: the db_set of validate_login_code stores the caller's stripped,
\* lower-cased email in an unbound code's record; a call passes a bound
\* code only with the email the record holds; and a refused call leaves
\* the key-value store unchanged.
C4_CodesTiedToEmail ==
  [][\A s \in Sessions :
       /\ (pc[s] = "val_set" /\ pc'[s] # "val_set") =>
            /\ loc[s].raw = <<"A", " ">> => codes'[loc[s].code].email = <<"a">>
            /\ loc[s].raw = <<"b">> => codes'[loc[s].code].email = <<"b">>
            /\ loc[s].raw \in {<<"A", " ">>, <<"b">>}
       /\ Validated(s) =>
            /\ codes[loc'[s].code] # NoRec
            /\ codes[loc'[s].code].email \in {<<>>, loc'[s].email}
            /\ (pc'[s] = "val_set") = (codes[loc'[s].code].email = <<>>)
       /\ Denied(s) => db' = db]_vars

\* One session has bound a code by its first valid use and another has
\* been refused with the same code while the code is still current.
C4_Witness ==
  \E s, t \in Sessions :
    /\ pc[s] = "idle" /\ sess[s].logged_in /\ ~sess[s].is_admin
    /\ \E c \in SEED_CODES :
         /\ codes[c] # NoRec
         /\ codes[c].email = sess[s].email
         /\ granted[c] = {sess[s].email}
         /\ loc[t].op = "denied" /\ loc[t].code = c
         /\ now <= codes[c].expires_at

\* C5: for each access code, all validate_login_code calls that return
\* success carry the same normalized email.
C5_OneEmailPerCode ==
  \A c \in AllCodes : Cardinality(granted[c]) <= 1

\* A step in which session s starts one of the four admin tools, or
\* performs the db_set of bind_unbound_code_to_email.
AdminToolStep(s) ==
  \/ /\ pc[s] = "idle"
     /\ pc'[s] # "idle"
     /\ loc'[s].op \in {"seed", "create", "bind", "credits"}
  \/ pc[s] = "bind_set" /\ pc'[s] # "bind_set"

\* A step of update_user_credits called by the add_credits_form.
AdminCreditsStep(s) ==
  /\ pc[s] \in {"upd_get", "upd_set"}
  /\ pc'[s] # pc[s]
  /\ loc[s].op = "credits"

\* A step of update_user_credits, whoever calls it.
UpdateCreditsStep(s) ==
  /\ pc[s] \in {"upd_get", "upd_set"}
  /\ pc'[s] # pc[s]

AdminGate(s) ==
  /\ sess[s].logged_in
  /\ sess[s].is_admin
  /\ pw[s] = "secret"

\* is_admin turns true only in an owner login, a code-validated login ends
\* with is_admin false, and logout restores the initial session state.
SessionRules(s) ==
  /\ (~sess[s].is_admin /\ sess'[s].is_admin) =>
       /\ pc[s] = "idle"
       /\ loc'[s].email = <<"o">>
       /\ loc'[s].code = OWNER_ACCESS_CODE
       /\ sess'[s].logged_in
  /\ (pc[s] = "ens_reget" /\ loc[s].op = "login" /\ pc'[s] = "idle") =>
       /\ sess'[s].logged_in
       /\ ~sess'[s].is_admin
  /\ (sess[s].logged_in /\ ~sess'[s].logged_in) =>
       /\ sess'[s].email = <<>>
       /\ sess'[s].tier = "general"
       /\ ~sess'[s].is_admin

\* C7 as stated: seed_demo_codes_if_missing, create_code_for_email,
\* bind_unbound_code_to_email and update_user_credits are executed only in
\* a session where is_admin is true and the entered password is
\* ADMIN_PASSWORD; is_admin turns true only in an owner login, a
\* code-validated login sets it false, logout resets the session.
C7_AdminOpsGated ==
  [][\A s \in Sessions :
       /\ (AdminToolStep(s) \/ UpdateCreditsStep(s)) => AdminGate(s)
       /\ SessionRules(s)]_vars

\* C7 as amended: the four admin tools of render_admin, update_user_credits
\* as called by its add_credits_form among them, are executed only in a
\* session where is_admin is true and the entered password is
\* ADMIN_PASSWORD; update_user_credits is also executed as the refund of a
\* failed run, in a logged-in session of any kind; the session rules hold
\* as stated.
C7_AdminToolsGated ==
  [][\A s \in Sessions :
       /\ (AdminToolStep(s) \/ AdminCreditsStep(s)) => AdminGate(s)
       /\ UpdateCreditsStep(s) => sess[s].logged_in
       /\ SessionRules(s)]_vars

\* The owner has just used an admin tool while a visitor who logged in with
\* a code, and is no admin, has had a failed run refunded.
C7_Witness ==
  /\ pc["s3"] = "ens_get"
  /\ loc["s3"].op \in {"seed", "create", "bind", "admin"}
  /\ sess["s3"].is_admin
  /\ sess["s1"].logged_in /\ ~sess["s1"].is_admin
  /\ loc["s1"].op = "refunded"

\* C8: save_history leaves at most 25 entries stored; the first is the
\* payload just saved, the others are the entries stored before, in their
\* order; a list that was 25 long loses its last, oldest, entry.
C8_HistoryKeepsLast25 ==
  [][\A s \in Sessions :
       (pc[s] = "hist_set" /\ pc'[s] # "hist_set") =>
         LET old == history[loc[s].email]
             new == history'[loc[s].email]
         IN /\ Len(old) <= 25
            /\ Len(new) = IF Len(old) < 25 THEN Len(old) + 1 ELSE 25
            /\ new[1] = loc[s].payload
            /\ \A i \in 2..Len(new) : new[i] = old[i - 1]]_vars

\* A run has been saved on top of a full list: more than 25 runs have
\* succeeded, 25 are stored, the newest first.
C8_Witness ==
  /\ loc["s1"].op = "ran"
  /\ okRuns[<<"a">>] > 25
  /\ Len(history[<<"a">>]) = 25
  /\ history[<<"a">>][1] = loc["s1"].payload
  /\ history[<<"a">>][1].credits_remaining_after
       < history[<<"a">>][2].credits_remaining_after

\* C9: a run that finds a brief stored under its cache key (its stripped
\* inputs and the current ISO week) does not call the API and saves exactly
\* that brief to history; the API is called only when nothing is stored
\* under the key, and its result is stored there; so no session gets two
\* successful API calls for one key.
C9_CacheAvoidsRepeatedCalls ==
  /\ [](apiTwice = {})
  /\ [][\A s \in Sessions :
          /\ (pc[s] = "ens_reget" /\ pc'[s] = "dec_get") =>
               /\ loc'[s].key.week * TicksPerWeek <= now
               /\ now < (loc'[s].key.week + 1) * TicksPerWeek
               /\ loc'[s].key.company = <<"x">>
               /\ loc'[s].key.initiative = loc[s].initiative
          /\ (pc[s] = "cache_get" /\ pc'[s] # "cache_get") =>
               IF cache[loc[s].key] # NoRec
                 THEN pc'[s] = "hist_get" /\ loc'[s].brief = cache[loc[s].key]
                 ELSE pc'[s] = "api"
          /\ (pc'[s] = "api" /\ pc[s] # "api") => cache[loc[s].key] = NoRec
          /\ (pc'[s] = "cache_set" /\ pc[s] # "cache_set") => pc[s] = "api"
          /\ (pc[s] = "cache_set" /\ pc'[s] # "cache_set") =>
               cache'[loc[s].key] = loc[s].brief
          /\ (pc[s] = "hist_get" /\ pc'[s] # "hist_get") =>
               loc'[s].brief = loc[s].brief
          /\ (pc[s] = "hist_set" /\ pc'[s] # "hist_set") =>
               history'[loc[s].email][1].brief = loc[s].brief]_vars

\* After a single API call, by s1, at least two runs have succeeded and the
\* newest history entry holds the brief stored under that call's key.
C9_Witness ==
  /\ Cardinality(apiOk) = 1
  /\ \A x \in apiOk : /\ x[1] = "s1"
                      /\ history[<<"a">>] # <<>>
                      /\ history[<<"a">>][1].brief = cache[x[2]]
  /\ loc["s1"].op = "ran"
  /\ loc["s2"].op = "none"
  /\ okRuns[<<"a">>] >= 2

RunEnded(s) == pc[s] = "idle" /\ loc[s].op \in {"ran", "refunded"}

\* C10: when two sessions of one email have each performed an agent run
\* and together have started no more runs than the starting balance holds
\* credits, then once every run has ended the stored credits equal the
\* starting balance minus the number of runs that succeeded, whatever the
\* interleaving of their gets and sets.
C10_NoLostUpdate ==
  (Quiescent /\ RunEnded("s1") /\ RunEnded("s2")
     /\ submitted <= DEFAULT_FREE_CREDITS /\ users[UserA] # NoRec)
    => users[UserA].credits = DEFAULT_FREE_CREDITS - okRuns[UserA]

\* ----------------------------------------------------------- binding
\* The admin on s3 issues codes to two different emails, seeds and binds;
\* a visitor on s1 logs in with the codes.  secrets.token_hex(3) can return
\* a token it has returned before, which the single token stands for.
NextBind ==
  \/ Tick
  \/ Seed("s3")
  \/ \E e \in {<<"a">>, <<"b">>} : CreateCode("s3", e, "general", "0A1B2C")
  \/ \E e \in {<<"b">>} : BindGet("s3", SeedGen, e)
  \/ BindSet("s3")
  \/ \E e \in {<<"A", " ">>}, c \in {SeedGen, GenA} : LoginSubmit("s1", e, c)
  \/ ValSet("s1")
  \/ \E s \in {"s1", "s3"} : EnsGet(s)
  \/ \E s \in {"s1", "s3"} : EnsSet(s)
  \/ \E s \in {"s1", "s3"} : EnsReget(s)
  \/ Logout("s1")

SpecBind == InitCodes /\ [][NextBind]_vars

\* C11: once a code record has a non-empty email, no step (of
\* create_code_for_email, seed_demo_codes_if_missing,
\* bind_unbound_code_to_email or validate_login_code) changes the record's
\* email, tier, week_id or expires_at.
C11_BindingPermanent ==
  [][\A c \in AllCodes :
       (codes[c] # NoRec /\ codes[c].email # <<>>) => codes'[c] = codes[c]]_vars

\* ------------------------------------------------------------ access
\* Time passing between script runs: a tick is far longer than a run.
TickBetweenRuns ==
  /\ \A s \in Sessions : pc[s] = "idle"
  /\ Tick

\* A visitor logs in with the seeded code and keeps the session open while
\* the days pass, running the agent now and then.
NextAccess ==
  \/ TickBetweenRuns
  \/ LoginSubmit("s1", <<"a">>, SeedGen)
  \/ ValSet("s1")
  \/ EnsGet("s1")
  \/ EnsSet("s1")
  \/ EnsReget("s1")
  \/ Logout("s1")
  \/ \E r \in BOOLEAN : AgentStart("s1", <<"x">>, <<>>, r)
  \/ DecGet("s1")
  \/ DecSet("s1")
  \/ CacheGet("s1")
  \/ ApiOk("s1", 1)
  \/ CacheSet("s1")
  \/ HistGet("s1")
  \/ HistSet("s1")

SpecAccess == Init /\ [][NextAccess]_vars

\* A step of an agent run of session s: the credit decrement's db_set, the
\* cache lookup, or the API call.
RunStep(s) ==
  /\ pc[s] \in {"dec_set", "cache_get", "api"}
  /\ pc'[s] # pc[s]

\* C12: a non-owner session performs an agent run only while a code that
\* let its email in is still valid: the current ISO week is the code's
\* week_id and the current time is not after its expires_at.
C12_AccessTimeLimited ==
  [][\A s \in Sessions :
       (RunStep(s) /\ ~sess[s].is_admin) =>
         \E c \in AllCodes :
           /\ sess[s].email \in granted[c]
           /\ codes[c] # NoRec
           /\ CodeCurrent(codes[c], now)]_vars

====
